---- MODULE Spec2Model ----
(***************************************************************************)
(* Model of src/scripts/migrate_db_data.py: the table-by-table copy of     *)
(* rows from the source schema to the target schema (main, migrate_table,  *)
(* verify_connections, check_tables_exist).                                *)
(*                                                                         *)
(* The two databases are the environment.  A table is a sequence of rows,  *)
(* a row a function from column names to values.  The target connection    *)
(* is not in autocommit mode: what executemany writes is pending in `txn`  *)
(* until commit() makes it the table's content or rollback() drops it.     *)
(* Every database call that the code makes inside its try block may raise  *)
(* (a chosen input of the failing actions); rollback() and close() are     *)
(* taken to succeed.                                                       *)
(***************************************************************************)
EXTENDS Integers, Sequences, FiniteSets, TLC

VARIABLES
    \* ---- the environment: both databases and the persisted reports
    srcTables,          \* names of the tables present in the source schema
    tgtTables,          \* names of the tables present in the target schema
    schema,             \* table -> [src, tgt: column lists, pk: key columns, uniq: unique columns]
    srcN,               \* table -> number of rows of the source table
    tgt,                \* table -> committed rows of the target table
    txn,                \* <<>>, or <<T>>: the uncommitted content T of the current target table
    report,             \* the migration_log_*.json files written so far
    \* ---- main()
    pc,                 \* position of the control flow
    srcOpen, tgtOpen,   \* source_conn / target_conn are open
    tables_to_migrate,  \* main: the tables present on both sides
    idx,                \* main: position of the for loop over tables_to_migrate
    results,            \* main: results
    \* ---- migrate_table()
    common_columns, pk_column, insert_query, rows_migrated, batch,
    pos,                \* rows the iteration over source_cur has yielded
    exc,                \* the exception the try block raised, None when it raised none
    \* ---- the column reconciliation called on its own
    reconcile,          \* None, or [mapping, source_columns, target_columns, common_columns]
    \* ---- history, read only by the properties
    commits,            \* sizes of the batches committed for the current table
    tgt0,               \* table -> target content when the current run started
    prompts,            \* the overwrite questions asked in this run, with the answers
    faults,             \* [table, kind] of every call that raised in this run
    escaped,            \* an exception left migrate_table
    history             \* one record per earlier run of main()

vars == <<srcTables, tgtTables, schema, srcN, tgt, txn, report, pc, srcOpen, tgtOpen,
          tables_to_migrate, idx, results, common_columns, pk_column, insert_query,
          rows_migrated, batch, pos, exc, reconcile, commits, tgt0, prompts, faults, escaped,
          history>>

envVars == <<srcTables, tgtTables, schema, srcN>>
localVars == <<common_columns, pk_column, insert_query, rows_migrated, batch, pos, exc>>

\* ---------------------------------------------------------------- bounds
\* batch_size (1000 in the code), scaled down
BatchSize == 2
\* number of consecutive runs of main() in SpecTwice
MaxRuns == 2
\* longest column list the reconciliation is called with in SpecReconcile
MaxColumns == 3

\* ---------------------------------------------------------------- configuration
None == "None"

Range(s) == {s[i] : i \in DOMAIN s}

\* Two of the eleven configured tables, in the configured order: one without
\* and the one with a column mapping.
TABLES_TO_MIGRATE == <<"tokens", "pool_statistics">>

\* Three column names stand for the columns of every table: a key column,
\* a data column, and a column the mapping of pool_statistics excludes.
Cols == {"pool_address", "tvl_usd", "avg_profit_usd"}

COLUMN_MAPPING ==
    [pool_statistics |->
        [exclude |-> {"avg_profit_usd"},
         include |-> {"pool_address", "tvl_usd"}]]

\* What the operator may type at a prompt.
Responses == {"s", "S", "n", "si"}

\* The answer, had lower() been left out
SameCase(response) == response

\* str.lower() on the answers
Lower(response) == IF response = "S" THEN "s" ELSE response

\* ---------------------------------------------------------------- the databases
\* The shapes a table takes: source and target column lists (in ordinal
\* order), the columns of the target's PRIMARY KEY constraint, and the
\* columns of one further UNIQUE constraint of the target ({}: none).
SchemaCases ==
    { [src |-> <<"pool_address", "tvl_usd", "avg_profit_usd">>,
       tgt |-> <<"pool_address", "tvl_usd", "avg_profit_usd">>,
       pk |-> <<"pool_address">>, uniq |-> {}],
      [src |-> <<"pool_address", "tvl_usd">>, tgt |-> <<"pool_address", "tvl_usd">>,
       pk |-> <<>>, uniq |-> {}],
      [src |-> <<"pool_address", "tvl_usd">>, tgt |-> <<"pool_address", "tvl_usd">>,
       pk |-> <<>>, uniq |-> {"pool_address"}],
      [src |-> <<"tvl_usd">>, tgt |-> <<"pool_address", "tvl_usd">>,
       pk |-> <<"pool_address">>, uniq |-> {}],
      [src |-> <<"pool_address">>, tgt |-> <<"pool_address", "avg_profit_usd">>,
       pk |-> <<"pool_address">>, uniq |-> {}],
      [src |-> <<"avg_profit_usd">>, tgt |-> <<"tvl_usd">>,
       pk |-> <<>>, uniq |-> {}],
      [src |-> <<"pool_address", "tvl_usd">>, tgt |-> <<"pool_address", "tvl_usd">>,
       pk |-> <<"pool_address", "tvl_usd">>, uniq |-> {}] }

\* The schema of a table that does not exist
NoSchema == [src |-> <<>>, tgt |-> <<>>, pk |-> <<>>, uniq |-> {}]

\* The sizes a source table takes: empty, less than a batch, exactly one
\* batch, two batches and a rest.
SourceSizes == {0, 1, BatchSize, 2 * BatchSize + 1}

\* Row i of a source table: key i, fresh data (1) in its other columns;
\* 0 is the NULL of a column the table does not have.
SourceRow(source_columns, i) ==
    [c \in Cols |-> IF c \notin Range(source_columns) THEN 0
                    ELSE IF c = "pool_address" THEN i ELSE 1]

SourceRows(t) == [i \in 1..srcN[t] |-> SourceRow(schema[t].src, i)]

\* A row the target held before the run: key k, old data (7).
OldRow(target_columns, k) ==
    [c \in Cols |-> IF c \notin Range(target_columns) THEN 0
                    ELSE IF c = "pool_address" THEN k ELSE 7]

\* The target starts empty, or with a row whose key the source has too
\* (key 1) and a row whose key it has not (key 9).
InitialTargets(target_columns) ==
    { <<>>, <<OldRow(target_columns, 1), OldRow(target_columns, 9)>> }

\* ---------------------------------------------------------------- migrate_table: pure parts
\* The mapping of a table that COLUMN_MAPPING does not name: no key at all
NoMapping == [k \in {} |-> {}]

\* The reconciliation, had the exclude step been left out
ReconcileColumnsNoExclude(mapping, source_columns, target_columns) ==
    LET included == IF "include" \in DOMAIN mapping
                    THEN SelectSeq(source_columns, LAMBDA c : c \in mapping["include"])
                    ELSE source_columns
    IN SelectSeq(included, LAMBDA c : c \in Range(target_columns))

\* The reconciliation, had the second test been `elif 'include' in mapping`
ReconcileColumnsElif(mapping, source_columns, target_columns) ==
    LET mapped == IF "exclude" \in DOMAIN mapping
                  THEN SelectSeq(source_columns, LAMBDA c : c \notin mapping["exclude"])
                  ELSE IF "include" \in DOMAIN mapping
                  THEN SelectSeq(source_columns, LAMBDA c : c \in mapping["include"])
                  ELSE source_columns
    IN SelectSeq(mapped, LAMBDA c : c \in Range(target_columns))

\* The reconciliation, had the exclude step kept `c in mapping['exclude']`
ReconcileColumnsKeepsExcluded(mapping, source_columns, target_columns) ==
    LET excluded == IF "exclude" \in DOMAIN mapping
                    THEN SelectSeq(source_columns, LAMBDA c : c \in mapping["exclude"])
                    ELSE source_columns
        included == IF "include" \in DOMAIN mapping
                    THEN SelectSeq(excluded, LAMBDA c : c \in mapping["include"])
                    ELSE excluded
    IN SelectSeq(included, LAMBDA c : c \in Range(target_columns))

\* lines 140-149: the mapping's exclude, then its include, then the
\* columns the target has too, in source order
ReconcileColumns(mapping, source_columns, target_columns) ==
    LET excluded == IF "exclude" \in DOMAIN mapping
                    THEN SelectSeq(source_columns, LAMBDA c : c \notin mapping["exclude"])
                    ELSE source_columns
        included == IF "include" \in DOMAIN mapping
                    THEN SelectSeq(excluded, LAMBDA c : c \in mapping["include"])
                    ELSE excluded
    IN SelectSeq(included, LAMBDA c : c \in Range(target_columns))

\* lines 137-149 for a configured table
CommonColumns(table, source_columns, target_columns) ==
    ReconcileColumns(IF table \in DOMAIN COLUMN_MAPPING THEN COLUMN_MAPPING[table]
                     ELSE NoMapping,
                     source_columns, target_columns)

\* lines 203-206: fetchone() on the columns of the PRIMARY KEY constraint.
\* The query has no ORDER BY: any of the key's columns may come first.
PkLookup(sch) == IF sch.pk = <<>> THEN {None} ELSE Range(sch.pk)

\* The statement, had the else branch carried no ON CONFLICT clause
InsertQueryPlain(table, common, pkc) ==
    IF pkc # None /\ pkc \in Range(common)
    THEN [kind |-> "DO UPDATE", table |-> table, columns |-> common, conflict |-> pkc,
          update |-> SelectSeq(common, LAMBDA c : c # pkc)]
    ELSE [kind |-> "INSERT", table |-> table, columns |-> common]

\* The statement, had the test been `if pk_column:` alone
InsertQueryAnyKey(table, common, pkc) ==
    IF pkc # None
    THEN [kind |-> "DO UPDATE", table |-> table, columns |-> common, conflict |-> pkc,
          update |-> SelectSeq(common, LAMBDA c : c # pkc)]
    ELSE [kind |-> "DO NOTHING", table |-> table, columns |-> common]

\* The statement, had the SET list been built from the target's columns
InsertQueryUpdatesTarget(table, common, pkc) ==
    IF pkc # None /\ pkc \in Range(common)
    THEN [kind |-> "DO UPDATE", table |-> table, columns |-> common, conflict |-> pkc,
          update |-> SelectSeq(schema[table].tgt, LAMBDA c : c # pkc)]
    ELSE [kind |-> "DO NOTHING", table |-> table, columns |-> common]

\* lines 208-222: the statement, by its parts
InsertQuery(table, common, pkc) ==
    IF pkc # None /\ pkc \in Range(common)
    THEN [kind |-> "DO UPDATE", table |-> table, columns |-> common, conflict |-> pkc,
          update |-> SelectSeq(common, LAMBDA c : c # pkc)]
    ELSE [kind |-> "DO NOTHING", table |-> table, columns |-> common]

\* line 236: the values of a source row, aligned with common_columns
Values(row, common) == [i \in DOMAIN common |-> row[common[i]]]

\* ---------------------------------------------------------------- the target database
\* The constraints of a target table that make rows conflict: its PRIMARY
\* KEY and its further UNIQUE constraint, each a set of columns.
UniqueKeys(sch) ==
    (IF sch.pk = <<>> THEN {} ELSE {Range(sch.pk)})
        \cup (IF sch.uniq = {} THEN {} ELSE {sch.uniq})

\* The row an INSERT of `values` into `columns` makes: the other columns
\* take their default.
NewRow(columns, values) ==
    [c \in Cols |-> IF c \in Range(columns)
                    THEN values[CHOOSE i \in DOMAIN columns : columns[i] = c]
                    ELSE 0]

\* The rows of T that row r collides with under the constraint on `key`
Colliding(T, r, key) == {i \in DOMAIN T : \A c \in key : T[i][c] = r[c]}

\* One execution of the statement q with one tuple of values, on content T
\* of a table of shape sch: [ok |-> the statement did not raise, tbl |-> the
\* content after it].
\*  - a constraint a written row can violate is one whose columns are all
\*    written: a key column left out takes a generated default;
\*  - an INSERT without ON CONFLICT raises when the row violates one;
\*  - ON CONFLICT DO NOTHING drops a row that violates any constraint;
\*  - ON CONFLICT (c) DO UPDATE SET ... is rejected when the SET list is
\*    empty (syntax error) and when no constraint is on exactly column c;
\*    a row colliding on c has its SET columns overwritten; a violation of
\*    another constraint raises.
ExecRow(q, sch, T, values) ==
    LET r == NewRow(q.columns, values)
        active == {key \in UniqueKeys(sch) : key \subseteq Range(q.columns)}
    IN IF q.kind = "INSERT"
       THEN [ok |-> \A key \in active : Colliding(T, r, key) = {},
             tbl |-> Append(T, r)]
       ELSE IF q.kind = "DO NOTHING"
       THEN [ok |-> TRUE,
             tbl |-> IF \E key \in active : Colliding(T, r, key) # {}
                     THEN T ELSE Append(T, r)]
       ELSE IF q.update = <<>> \/ {q.conflict} \notin UniqueKeys(sch)
       THEN [ok |-> FALSE, tbl |-> T]
       ELSE LET hit == Colliding(T, r, {q.conflict})
                others == active \ {{q.conflict}}
            IN IF hit = {}
               THEN [ok |-> \A key \in others : Colliding(T, r, key) = {},
                     tbl |-> Append(T, r)]
               ELSE LET i == CHOOSE i \in hit : TRUE
                        merged == [c \in Cols |->
                                      IF c \in Range(q.update) THEN r[c] ELSE T[i][c]]
                    IN [ok |-> \A key \in others :
                                  Colliding(T, merged, key) \subseteq {i},
                        tbl |-> [T EXCEPT ![i] = merged]]

\* cursor.executemany: the statement once per tuple, in order, until one
\* raises: [ok, tbl |-> content after the executions that did not raise].
RECURSIVE ExecuteManyOn(_, _, _, _)
ExecuteManyOn(q, sch, T, rows) ==
    IF rows = <<>> THEN [ok |-> TRUE, tbl |-> T]
    ELSE LET one == ExecRow(q, sch, T, Head(rows))
         IN IF one.ok THEN ExecuteManyOn(q, sch, one.tbl, Tail(rows))
            ELSE [ok |-> FALSE, tbl |-> T]

\* ---------------------------------------------------------------- initial state
\* State of main() before its first statement, and of the locals of
\* migrate_table outside a call.
MainInit ==
    /\ pc = "start"
    /\ srcOpen = FALSE /\ tgtOpen = FALSE
    /\ tables_to_migrate = <<>>
    /\ idx = 0
    /\ results = <<>>
    /\ common_columns = <<>> /\ pk_column = None /\ insert_query = None
    /\ rows_migrated = 0 /\ batch = <<>> /\ pos = 0 /\ exc = None
    /\ commits = <<>>
    /\ prompts = <<>>
    /\ faults = {}
    /\ escaped = FALSE
    /\ txn = <<>>

Tables == Range(TABLES_TO_MIGRATE)

Init ==
    /\ srcTables \in SUBSET Tables
    /\ tgtTables \in SUBSET Tables
    /\ schema \in [Tables -> SchemaCases \cup {NoSchema}]
    /\ \A t \in Tables :
          schema[t] = NoSchema <=> t \notin srcTables \cap tgtTables
    /\ srcN \in [Tables -> SourceSizes]
    /\ \A t \in Tables : t \notin srcTables \cap tgtTables => srcN[t] = 0
    /\ tgt \in [Tables -> UNION {InitialTargets(sc.tgt) : sc \in SchemaCases} \cup {<<>>}]
    /\ \A t \in Tables :
          tgt[t] \in (IF schema[t] = NoSchema THEN {<<>>} ELSE InitialTargets(schema[t].tgt))
    /\ tgt0 = tgt
    /\ report = <<>>
    /\ history = <<>>
    /\ reconcile = None
    /\ MainInit

\* ---------------------------------------------------------------- main
\* lines 420-423: the finally block of main
CloseConnections ==
    /\ srcOpen' = FALSE
    /\ tgtOpen' = FALSE

\* The filter, had it kept the tables present on either side
TablesToMigrateEither ==
    SelectSeq(TABLES_TO_MIGRATE, LAMBDA t : t \in srcTables \/ t \in tgtTables)

\* lines 297-308 and 349-352: the configured tables present on both sides
TablesToMigrate ==
    SelectSeq(TABLES_TO_MIGRATE, LAMBDA t : t \in srcTables /\ t \in tgtTables)

\* The start of main, had the outcome of verify_connections been ignored
VerifyConnectionsIgnored ==
    /\ pc = "start"
    /\ \E endpoint \in {"source", "target"} :
          faults' = faults \cup {[table |-> endpoint, kind |-> "connect"]}
    /\ tables_to_migrate' = TablesToMigrate
    /\ pc' = "confirm" /\ srcOpen' = TRUE /\ tgtOpen' = TRUE
    /\ UNCHANGED <<envVars, reconcile, tgt, txn, report, idx, results, localVars, commits,
                   tgt0, prompts, escaped, history>>

\* lines 274-294 and 319-325: the source or the target endpoint cannot be
\* reached, verify_connections returns False; sys.exit(1)
VerifyConnectionsFails ==
    /\ pc = "start"
    /\ \E endpoint \in {"source", "target"} :
          faults' = faults \cup {[table |-> endpoint, kind |-> "connect"]}
    /\ pc' = "exit"
    /\ UNCHANGED <<envVars, reconcile, tgt, txn, report, srcOpen, tgtOpen,
                   tables_to_migrate, idx, results, localVars, commits, tgt0, prompts,
                   escaped, history>>

\* The enumeration, had the return for an empty table list come after the
\* log file is written
ConnectAndEnumerateReports ==
    /\ pc = "start"
    /\ tables_to_migrate' = TablesToMigrate
    /\ IF TablesToMigrate = <<>>
       THEN /\ pc' = "closed" /\ CloseConnections
            /\ report' = Append(report, [source_schema |-> "arbitrage",
                                         target_schema |-> "mig_topology",
                                         results |-> <<>>,
                                         total_rows_migrated |-> 0])
       ELSE pc' = "confirm" /\ srcOpen' = TRUE /\ tgtOpen' = TRUE /\ UNCHANGED report
    /\ UNCHANGED <<envVars, reconcile, tgt, txn, idx, results, localVars, commits, tgt0,
                   prompts, faults, escaped, history>>

\* lines 319-356: both endpoints answer; connect, look the tables up, keep
\* those present on both sides; return (through finally) when there are none
ConnectAndEnumerate ==
    /\ pc = "start"
    /\ tables_to_migrate' = TablesToMigrate
    /\ IF TablesToMigrate = <<>>
       THEN pc' = "closed" /\ CloseConnections
       ELSE pc' = "confirm" /\ srcOpen' = TRUE /\ tgtOpen' = TRUE
    /\ UNCHANGED <<envVars, reconcile, tgt, txn, report, idx, results, localVars, commits, tgt0,
                   prompts, faults, escaped, history>>

\* lines 362-370: the run-level question
ConfirmRun ==
    /\ pc = "confirm"
    /\ \E response \in Responses :
          IF Lower(response) # "s"
          THEN pc' = "closed" /\ CloseConnections /\ UNCHANGED <<idx, results>>
          ELSE pc' = "table" /\ idx' = 1 /\ results' = <<>>
                 /\ UNCHANGED <<srcOpen, tgtOpen>>
    /\ UNCHANGED <<envVars, reconcile, tgt, txn, report, tables_to_migrate, localVars, commits,
                   tgt0, prompts, faults, escaped, history>>

\* The table migrate_table is called for
Table == tables_to_migrate[idx]

\* The return to main, had it put the result in front of the earlier ones
ReturnPrepends(result) ==
    /\ results' = <<result>> \o results
    /\ idx' = idx + 1
    /\ pc' = IF idx < Len(tables_to_migrate) THEN "table" ELSE "report"
    /\ common_columns' = <<>> /\ pk_column' = None /\ insert_query' = None
    /\ rows_migrated' = 0 /\ batch' = <<>> /\ pos' = 0 /\ exc' = None
    /\ commits' = <<>>

\* lines 371-379: migrate_table returned `result`: append it, go on with the
\* next table, or with the summary after the last one
Return(result) ==
    /\ results' = Append(results, result)
    /\ idx' = idx + 1
    /\ pc' = IF idx < Len(tables_to_migrate) THEN "table" ELSE "report"
    /\ common_columns' = <<>> /\ pk_column' = None /\ insert_query' = None
    /\ rows_migrated' = 0 /\ batch' = <<>> /\ pos' = 0 /\ exc' = None
    /\ commits' = <<>>

\* lines 386-402: total_rows of the summary
RECURSIVE TotalRows(_)
TotalRows(rs) ==
    IF rs = <<>> THEN 0
    ELSE (IF Head(rs).status = "success" THEN Head(rs).rows_migrated ELSE 0)
            + TotalRows(Tail(rs))

\* The end of main, had it written the log file only after a success
SaveReportIfSuccess ==
    /\ pc = "report"
    /\ report' = IF \E i \in DOMAIN results : results[i].status = "success"
                 THEN Append(report, [source_schema |-> "arbitrage",
                                      target_schema |-> "mig_topology",
                                      results |-> results,
                                      total_rows_migrated |-> TotalRows(results)])
                 ELSE report
    /\ pc' = "closed"
    /\ CloseConnections
    /\ UNCHANGED <<envVars, reconcile, tgt, txn, tables_to_migrate, idx, results, localVars,
                   commits, tgt0, prompts, faults, escaped, history>>

\* lines 381-423: the summary, the log file, the finally block
SaveReport ==
    /\ pc = "report"
    /\ report' = Append(report, [source_schema |-> "arbitrage",
                                 target_schema |-> "mig_topology",
                                 results |-> results,
                                 total_rows_migrated |-> TotalRows(results)])
    /\ pc' = "closed"
    /\ CloseConnections
    /\ UNCHANGED <<envVars, reconcile, tgt, txn, tables_to_migrate, idx, results, localVars,
                   commits, tgt0, prompts, faults, escaped, history>>

\* ---------------------------------------------------------------- migrate_table
\* lines 137-149 for the current table
Common == CommonColumns(Table, schema[Table].src, schema[Table].tgt)

\* lines 162-163: the two row counts (the target's is read on the target
\* connection, which holds no uncommitted write at that point)
SourceCount == srcN[Table]
TargetCount == Len(tgt[Table])

\* The result of a skip, had it carried no row count
SkippedBare(reason) ==
    [table |-> Table, status |-> "skipped", reason |-> reason]

Skipped(reason) ==
    [table |-> Table, status |-> "skipped", reason |-> reason, rows_migrated |-> 0]

\* The early returns, had lines 151-157 been left out: the SELECT of an
\* empty column list is rejected inside the try block
SkipTableUnchecked ==
    /\ pc = "table"
    /\ \/ SourceCount = 0 /\ Return(Skipped("Tabla vacia en origen"))
       \/ Common = <<>> /\ SourceCount # 0
            /\ Return([table |-> Table, status |-> "error", error |-> "statement",
                       rows_migrated |-> 0])
    /\ UNCHANGED <<envVars, reconcile, tgt, txn, report, srcOpen, tgtOpen, tables_to_migrate, tgt0,
                   prompts, faults, escaped, history>>

\* lines 151-157 and 168-174: nothing in common, or nothing to copy
SkipTable ==
    /\ pc = "table"
    /\ \/ Common = <<>> /\ Return(Skipped("No hay columnas comunes"))
       \/ Common # <<>> /\ SourceCount = 0 /\ Return(Skipped("Tabla vacia en origen"))
    /\ UNCHANGED <<envVars, reconcile, tgt, txn, report, srcOpen, tgtOpen, tables_to_migrate, tgt0,
                   prompts, faults, escaped, history>>

\* The decline, had the question been asked before the source count is tested
DeclineOverwriteBeforeCount ==
    /\ pc = "table"
    /\ Common # <<>> /\ TargetCount > 0
    /\ \E response \in Responses :
          /\ Lower(response) # "s"
          /\ prompts' = Append(prompts, [table |-> Table, response |-> response])
    /\ Return(Skipped("Usuario cancelo"))
    /\ UNCHANGED <<envVars, reconcile, tgt, txn, report, srcOpen, tgtOpen, tables_to_migrate, tgt0,
                   faults, escaped, history>>

\* lines 176-185: the target has rows and the operator does not answer "s"
DeclineOverwrite ==
    /\ pc = "table"
    /\ Common # <<>> /\ SourceCount # 0 /\ TargetCount > 0
    /\ \E response \in Responses :
          /\ Lower(response) # "s"
          /\ prompts' = Append(prompts, [table |-> Table, response |-> response])
    /\ Return(Skipped("Usuario cancelo"))
    /\ UNCHANGED <<envVars, reconcile, tgt, txn, report, srcOpen, tgtOpen, tables_to_migrate, tgt0,
                   faults, escaped, history>>

\* The start of the transfer, had the question of lines 177-185 been left out
BeginTransferUnasked ==
    /\ pc = "table"
    /\ Common # <<>> /\ SourceCount # 0
    /\ UNCHANGED prompts
    /\ \E pkc \in PkLookup(schema[Table]) :
          /\ pk_column' = pkc
          /\ insert_query' = InsertQuery(Table, Common, pkc)
    /\ common_columns' = Common
    /\ rows_migrated' = 0 /\ batch' = <<>> /\ pos' = 0
    /\ pc' = "fetch"
    /\ UNCHANGED <<envVars, reconcile, tgt, txn, report, srcOpen, tgtOpen, tables_to_migrate, idx,
                   results, exc, commits, tgt0, faults, escaped, history>>

\* lines 136-232: the checks pass (the operator answers "s" when asked), the
\* key is looked up, the statement is built and the source query is sent
BeginTransfer ==
    /\ pc = "table"
    /\ Common # <<>> /\ SourceCount # 0
    /\ IF TargetCount > 0
       THEN \E response \in Responses :
               /\ Lower(response) = "s"
               /\ prompts' = Append(prompts, [table |-> Table, response |-> response])
       ELSE UNCHANGED prompts
    /\ \E pkc \in PkLookup(schema[Table]) :
          /\ pk_column' = pkc
          /\ insert_query' = InsertQuery(Table, Common, pkc)
    /\ common_columns' = Common
    /\ rows_migrated' = 0 /\ batch' = <<>> /\ pos' = 0
    /\ pc' = "fetch"
    /\ UNCHANGED <<envVars, reconcile, tgt, txn, report, srcOpen, tgtOpen, tables_to_migrate, idx,
                   results, exc, commits, tgt0, faults, escaped, history>>

\* The failure of a catalog or count query, had it been inside the try block
IntrospectionFailsCaught ==
    /\ pc = "table"
    /\ faults' = faults \cup {[table |-> Table, kind |-> "introspection"]}
    /\ Return([table |-> Table, status |-> "error", error |-> "introspection",
               rows_migrated |-> 0])
    /\ UNCHANGED <<envVars, reconcile, tgt, txn, report, srcOpen, tgtOpen,
                   tables_to_migrate, tgt0, prompts, escaped, history>>

\* The failure of a catalog or count query, had main had no finally block
IntrospectionFailsNoFinally ==
    /\ pc = "table"
    /\ escaped' = TRUE
    /\ faults' = faults \cup {[table |-> Table, kind |-> "introspection"]}
    /\ pc' = "closed"
    /\ UNCHANGED <<envVars, reconcile, tgt, txn, report, srcOpen, tgtOpen,
                   tables_to_migrate, idx, results, localVars, commits, tgt0, prompts,
                   history>>

\* lines 137-206: a catalog or count query raises; nothing in migrate_table
\* or in main catches it, the finally block of main runs
IntrospectionFails ==
    /\ pc = "table"
    /\ escaped' = TRUE
    /\ faults' = faults \cup {[table |-> Table, kind |-> "introspection"]}
    /\ pc' = "closed"
    /\ CloseConnections
    /\ UNCHANGED <<envVars, reconcile, tgt, txn, report, tables_to_migrate, idx, results, localVars,
                   commits, tgt0, prompts, history>>

\* The loop, had it tested len(batch) > batch_size
FetchRowLate ==
    /\ pc = "fetch"
    /\ pos < srcN[Table]
    /\ pos' = pos + 1
    /\ batch' = Append(batch, Values(SourceRows(Table)[pos + 1], common_columns))
    /\ pc' = IF Len(batch') > BatchSize \/ pos' = srcN[Table] THEN "write" ELSE "fetch"
    /\ UNCHANGED <<envVars, reconcile, tgt, txn, report, srcOpen, tgtOpen, tables_to_migrate, idx,
                   results, common_columns, pk_column, insert_query, rows_migrated, exc,
                   commits, tgt0, prompts, faults, escaped, history>>

\* lines 235-239: the cursor yields the next row; it joins the batch, which
\* is written when full (line 239) or when the rows are exhausted (line 248)
FetchRow ==
    /\ pc = "fetch"
    /\ pos < srcN[Table]
    /\ pos' = pos + 1
    /\ batch' = Append(batch, Values(SourceRows(Table)[pos + 1], common_columns))
    /\ pc' = IF Len(batch') >= BatchSize \/ pos' = srcN[Table] THEN "write" ELSE "fetch"
    /\ UNCHANGED <<envVars, reconcile, tgt, txn, report, srcOpen, tgtOpen, tables_to_migrate, idx,
                   results, common_columns, pk_column, insert_query, rows_migrated, exc,
                   commits, tgt0, prompts, faults, escaped, history>>

\* lines 232 and 235: the source query or the fetch of the next row raises
SourceReadFails ==
    /\ pc = "fetch"
    /\ pos < srcN[Table]
    /\ exc' = "read"
    /\ faults' = faults \cup {[table |-> Table, kind |-> "read"]}
    /\ pc' = "raise"
    /\ UNCHANGED <<envVars, reconcile, tgt, txn, report, srcOpen, tgtOpen, tables_to_migrate, idx,
                   results, common_columns, pk_column, insert_query, rows_migrated, batch,
                   pos, commits, tgt0, prompts, escaped, history>>

\* lines 241 and 250: executemany of the batch, on the committed content;
\* a statement the database rejects raises
ExecuteMany ==
    /\ pc = "write"
    /\ LET done == ExecuteManyOn(insert_query, schema[Table], tgt[Table], batch)
       IN /\ txn' = <<done.tbl>>
          /\ IF done.ok
             THEN pc' = "commit" /\ UNCHANGED <<exc, faults>>
             ELSE /\ pc' = "raise"
                  /\ exc' = "statement"
                  /\ faults' = faults \cup {[table |-> Table, kind |-> "statement"]}
    /\ UNCHANGED <<envVars, reconcile, tgt, report, srcOpen, tgtOpen, tables_to_migrate, idx,
                   results, common_columns, pk_column, insert_query, rows_migrated, batch,
                   pos, commits, tgt0, prompts, escaped, history>>

\* lines 241 and 250: executemany raises for a reason of the environment
\* (connection, type of a value) after j of the batch's rows were written
ExecuteManyFails ==
    /\ pc = "write"
    /\ \E j \in 0..(Len(batch) - 1) :
          LET done == ExecuteManyOn(insert_query, schema[Table], tgt[Table],
                                    SubSeq(batch, 1, j))
          IN /\ done.ok
             /\ txn' = <<done.tbl>>
    /\ exc' = "write"
    /\ faults' = faults \cup {[table |-> Table, kind |-> "write"]}
    /\ pc' = "raise"
    /\ UNCHANGED <<envVars, reconcile, tgt, report, srcOpen, tgtOpen, tables_to_migrate, idx,
                   results, common_columns, pk_column, insert_query, rows_migrated, batch,
                   pos, commits, tgt0, prompts, escaped, history>>

\* The commit, had the loop not emptied the batch after it
CommitBatchKeepsBatch ==
    /\ pc = "commit"
    /\ tgt' = [tgt EXCEPT ![Table] = txn[1]]
    /\ txn' = <<>>
    /\ rows_migrated' = rows_migrated + Len(batch)
    /\ commits' = Append(commits, Len(batch))
    /\ batch' = batch
    /\ pc' = IF pos < srcN[Table] THEN "fetch" ELSE "flushed"
    /\ UNCHANGED <<envVars, reconcile, report, srcOpen, tgtOpen, tables_to_migrate, idx, results,
                   common_columns, pk_column, insert_query, pos, exc, tgt0, prompts,
                   faults, escaped, history>>

\* The commit, had rows_migrated counted the rows the batch added to the table
CommitBatchCountsInserted ==
    /\ pc = "commit"
    /\ tgt' = [tgt EXCEPT ![Table] = txn[1]]
    /\ txn' = <<>>
    /\ rows_migrated' = rows_migrated + (Len(txn[1]) - Len(tgt[Table]))
    /\ commits' = Append(commits, Len(batch))
    /\ IF Len(batch) >= BatchSize
       THEN batch' = <<>> /\ pc' = "fetch"
       ELSE batch' = batch /\ pc' = "flushed"
    /\ UNCHANGED <<envVars, reconcile, report, srcOpen, tgtOpen, tables_to_migrate, idx, results,
                   common_columns, pk_column, insert_query, pos, exc, tgt0, prompts,
                   faults, escaped, history>>

\* lines 242-245 and 251-252: commit; count the rows; in the loop, start
\* the next batch
CommitBatch ==
    /\ pc = "commit"
    /\ tgt' = [tgt EXCEPT ![Table] = txn[1]]
    /\ txn' = <<>>
    /\ rows_migrated' = rows_migrated + Len(batch)
    /\ commits' = Append(commits, Len(batch))
    /\ IF Len(batch) >= BatchSize
       THEN batch' = <<>> /\ pc' = "fetch"
       ELSE batch' = batch /\ pc' = "flushed"
    /\ UNCHANGED <<envVars, reconcile, report, srcOpen, tgtOpen, tables_to_migrate, idx, results,
                   common_columns, pk_column, insert_query, pos, exc, tgt0, prompts,
                   faults, escaped, history>>

\* lines 242 and 251: commit raises; nothing was committed
CommitFails ==
    /\ pc = "commit"
    /\ exc' = "commit"
    /\ faults' = faults \cup {[table |-> Table, kind |-> "commit"]}
    /\ pc' = "raise"
    /\ UNCHANGED <<envVars, reconcile, tgt, txn, report, srcOpen, tgtOpen, tables_to_migrate, idx,
                   results, common_columns, pk_column, insert_query, rows_migrated, batch,
                   pos, commits, tgt0, prompts, escaped, history>>

\* lines 254-261: the rows are exhausted and the last batch is flushed
ReturnSuccess ==
    /\ \/ pc = "flushed"
       \/ pc = "fetch" /\ pos = srcN[Table] /\ batch = <<>>
    /\ Return([table |-> Table, status |-> "success", rows_migrated |-> rows_migrated,
               columns_migrated |-> Len(common_columns)])
    /\ UNCHANGED <<envVars, reconcile, tgt, txn, report, srcOpen, tgtOpen, tables_to_migrate, tgt0,
                   prompts, faults, escaped, history>>

\* The except block, had it counted the failed batch too
HandleExceptionCountsBatch ==
    /\ pc = "raise"
    /\ txn' = <<>>
    /\ Return([table |-> Table, status |-> "error", error |-> exc,
               rows_migrated |-> rows_migrated + Len(batch)])
    /\ UNCHANGED <<envVars, reconcile, tgt, report, srcOpen, tgtOpen, tables_to_migrate, tgt0,
                   prompts, faults, escaped, history>>

\* The except block, had it committed instead of rolling back
HandleExceptionCommits ==
    /\ pc = "raise"
    /\ tgt' = IF txn = <<>> THEN tgt ELSE [tgt EXCEPT ![Table] = txn[1]]
    /\ txn' = <<>>
    /\ Return([table |-> Table, status |-> "error", error |-> exc,
               rows_migrated |-> rows_migrated])
    /\ UNCHANGED <<envVars, reconcile, report, srcOpen, tgtOpen, tables_to_migrate, tgt0,
                   prompts, faults, escaped, history>>

\* The except block, had it raised again after the rollback
HandleExceptionReraises ==
    /\ pc = "raise"
    /\ txn' = <<>>
    /\ escaped' = TRUE
    /\ pc' = "closed"
    /\ CloseConnections
    /\ UNCHANGED <<envVars, reconcile, tgt, report, tables_to_migrate, idx, results, localVars,
                   commits, tgt0, prompts, faults, history>>

\* The except block, had it undone the whole run instead of the open transaction
HandleExceptionUndoesRun ==
    /\ pc = "raise"
    /\ tgt' = tgt0
    /\ txn' = <<>>
    /\ Return([table |-> Table, status |-> "error", error |-> exc,
               rows_migrated |-> rows_migrated])
    /\ UNCHANGED <<envVars, reconcile, report, srcOpen, tgtOpen, tables_to_migrate, tgt0,
                   prompts, faults, escaped, history>>

\* The except block, had it not rolled the target transaction back
HandleExceptionKeepsTransaction ==
    /\ pc = "raise"
    /\ UNCHANGED txn
    /\ Return([table |-> Table, status |-> "error", error |-> exc,
               rows_migrated |-> rows_migrated])
    /\ UNCHANGED <<envVars, reconcile, tgt, report, srcOpen, tgtOpen, tables_to_migrate, tgt0,
                   prompts, faults, escaped, history>>

\* lines 263-271: the except block: roll back, report the rows counted so far
HandleException ==
    /\ pc = "raise"
    /\ txn' = <<>>
    /\ Return([table |-> Table, status |-> "error", error |-> exc,
               rows_migrated |-> rows_migrated])
    /\ UNCHANGED <<envVars, reconcile, tgt, report, srcOpen, tgtOpen, tables_to_migrate, tgt0,
                   prompts, faults, escaped, history>>

\* ---------------------------------------------------------------- specifications
Next ==
    \/ VerifyConnectionsFails
    \/ ConnectAndEnumerate
    \/ ConfirmRun
    \/ SkipTable
    \/ DeclineOverwrite
    \/ BeginTransfer
    \/ IntrospectionFails
    \/ FetchRow
    \/ SourceReadFails
    \/ ExecuteMany
    \/ ExecuteManyFails
    \/ CommitBatch
    \/ CommitFails
    \/ ReturnSuccess
    \/ HandleException
    \/ SaveReport

\* One run of main()
Spec == Init /\ [][Next]_vars

\* main() is started again after it ended: the databases stay as the run
\* left them, the run's outcome is kept for comparison
RunAgain ==
    /\ pc \in {"closed", "exit"}
    /\ Len(history) < MaxRuns - 1
    /\ history' = Append(history, [results |-> results, tgt |-> tgt, tgt0 |-> tgt0,
                                   prompts |-> prompts, faults |-> faults])
    /\ tgt0' = tgt
    /\ pc' = "start"
    /\ tables_to_migrate' = <<>>
    /\ idx' = 0
    /\ results' = <<>>
    /\ prompts' = <<>>
    /\ faults' = {}
    /\ escaped' = FALSE
    /\ UNCHANGED <<envVars, reconcile, tgt, txn, report, srcOpen, tgtOpen, localVars, commits>>

\* Consecutive runs of main() over one configured table present on both sides
InitTwice ==
    /\ Init
    /\ srcTables = {TABLES_TO_MIGRATE[1]}
    /\ tgtTables = {TABLES_TO_MIGRATE[1]}

NextTwice == Next \/ RunAgain

SpecTwice == InitTwice /\ [][NextTwice]_vars

\* ---------------------------------------------------------------- the reconciliation alone
\* The column lists a catalog can return: names of Cols, each at most once,
\* in any order
ColumnLists ==
    {l \in UNION {[1..n -> Cols] : n \in 0..MaxColumns} :
        \A i, j \in DOMAIN l : l[i] = l[j] => i = j}

\* The entries COLUMN_MAPPING can hold for a table: 'exclude', 'include',
\* both or neither, each a set of names
Mappings == UNION {[keys -> SUBSET Cols] : keys \in SUBSET {"exclude", "include"}}

\* Lines 140-149 are about to run on some mapping and some column lists;
\* nothing else of the program is running
InitReconcile ==
    /\ srcTables = {} /\ tgtTables = {}
    /\ schema = [t \in Tables |-> NoSchema]
    /\ srcN = [t \in Tables |-> 0]
    /\ tgt = [t \in Tables |-> <<>>]
    /\ tgt0 = tgt
    /\ report = <<>>
    /\ history = <<>>
    /\ MainInit
    /\ reconcile \in [mapping : Mappings, source_columns : ColumnLists,
                       target_columns : ColumnLists, common_columns : {<<>>},
                       returned : {FALSE}]

\* lines 140-149 run
Reconcile ==
    /\ ~reconcile.returned
    /\ reconcile' = [reconcile EXCEPT
                        !.common_columns = ReconcileColumns(reconcile.mapping,
                                                            reconcile.source_columns,
                                                            reconcile.target_columns),
                        !.returned = TRUE]
    /\ UNCHANGED <<envVars, tgt, txn, report, pc, srcOpen, tgtOpen, tables_to_migrate,
                   idx, results, localVars, commits, tgt0, prompts, faults, escaped,
                   history>>

SpecReconcile == InitReconcile /\ [][Reconcile]_vars

\* ---------------------------------------------------------------- properties: helpers
RECURSIVE SumSeq(_)
SumSeq(q) == IF q = <<>> THEN 0 ELSE Head(q) + SumSeq(Tail(q))

Last(q) == q[Len(q)]

\* migrate_table is inside its try block, or in its except block
InTransfer == pc \in {"fetch", "write", "commit", "flushed", "raise"}

\* The exceptions of a batch write: executemany or commit raised
WriteErrors == {"write", "commit", "statement"}

\* The tuples the statement q is sent for rows 1..m of the source of table t
Tuples(t, q, m) == [i \in 1..m |-> Values(SourceRows(t)[i], q.columns)]

\* Content T with rows 1..m of the source of t written by statement q
Written(t, q, T, m) == ExecuteManyOn(q, schema[t], T, Tuples(t, q, m)).tbl

\* The statements migrate_table can build for table t
Statements(t) ==
    {InsertQuery(t, CommonColumns(t, schema[t].src, schema[t].tgt), pkc) :
        pkc \in PkLookup(schema[t])}

\* m rows are a whole number of batches of the source of t, the last of
\* which may be the short one that ends the stream
WholeBatches(t, m) == m % BatchSize = 0 \/ m = srcN[t]

\* ---------------------------------------------------------------- C1
\* C1: when the write or the commit of batch k raised, the except block
\* rolls the target transaction back without touching committed rows, the
\* table's result is 'error' with rows_migrated = the rows of batches
\* 1..k-1, all of them committed in the target, and the table is left: no
\* later batch is written (its content stays as it is until the run ends).
C1_FailedBatch ==
    /\ [][(pc = "raise" /\ exc \in WriteErrors) =>
            /\ txn' = <<>>
            /\ tgt' = tgt
            /\ results' = Append(results, Last(results'))
            /\ Last(results').table = Table
            /\ Last(results').status = "error"
            /\ Last(results').rows_migrated = SumSeq(commits)
            /\ \A i \in DOMAIN commits : commits[i] = BatchSize
            /\ SumSeq(commits) < srcN[Table]
            /\ tgt[Table] = Written(Table, insert_query, tgt0[Table], SumSeq(commits))
            /\ idx' = idx + 1]_vars
    /\ [][\A i \in DOMAIN results :
            results[i].status = "error" =>
                tgt'[results[i].table] = tgt[results[i].table]]_vars

\* C1 witness: the second batch of a table failed after the first was committed
C1_Witness ==
    \E i \in DOMAIN results :
        /\ results[i].status = "error"
        /\ results[i].error \in {"write", "commit"}
        /\ results[i].rows_migrated = BatchSize
        /\ Len(tgt[results[i].table]) > Len(tgt0[results[i].table])

\* ---------------------------------------------------------------- C2
\* C2: in every state, the target content of the table being transferred
\* is its content at the start with a whole number of leading batches of
\* the source written (each batch with all its rows or none), also while
\* an exception is handled; and a table whose result is recorded holds the
\* leading batches its result counts.
C2_WholeLeadingBatches ==
    /\ InTransfer =>
          /\ WholeBatches(Table, SumSeq(commits))
          /\ \A i \in DOMAIN commits :
                commits[i] = BatchSize \/ (i = Len(commits) /\ commits[i] < BatchSize)
          /\ tgt[Table] = Written(Table, insert_query, tgt0[Table], SumSeq(commits))
    /\ \A i \in DOMAIN results :
          LET t == results[i].table
              m == results[i].rows_migrated
          IN /\ WholeBatches(t, m)
             /\ \E q \in Statements(t) : tgt[t] = Written(t, q, tgt0[t], m)

\* C2 witness: a batch failed half written while an earlier one is committed
C2_Witness ==
    /\ pc = "raise"
    /\ commits # <<>>
    /\ txn # <<>>
    /\ txn[1] # tgt[Table]
    /\ tgt[Table] # tgt0[Table]

\* ---------------------------------------------------------------- C3
\* C3: when the source stream of N rows ends without a failure, exactly
\* ceil(N/B) batches have been committed, each of B rows except possibly the
\* last, their sizes add up to N, and the result is 'success' with
\* rows_migrated = N.
C3_BatchCount ==
    /\ ENABLED ReturnSuccess =>
          /\ Len(commits) = (srcN[Table] + BatchSize - 1) \div BatchSize
          /\ \A i \in 1..(Len(commits) - 1) : commits[i] = BatchSize
          /\ commits # <<>> => Last(commits) \in 1..BatchSize
          /\ SumSeq(commits) = srcN[Table]
          /\ rows_migrated = srcN[Table]
    /\ \A i \in DOMAIN results :
          LET failed == \E f \in faults : f.table = results[i].table
          IN /\ (~failed /\ results[i].status # "skipped") => results[i].status = "success"
             /\ results[i].status = "success" =>
                   ~failed /\ results[i].rows_migrated = srcN[results[i].table]

\* C3 witness: two full batches and a short one were committed
C3_Witness ==
    /\ pc = "flushed"
    /\ Len(commits) = 3
    /\ commits[1] = BatchSize /\ commits[2] = BatchSize /\ commits[3] < BatchSize

\* ---------------------------------------------------------------- C4
\* C4: the batch in hand is the rows the cursor yielded after the committed
\* ones, in cursor order; a write is pending only for that one batch, on top
\* of a target in which every earlier row of the stream is committed.
C4_SequentialBatches ==
    pc \in {"fetch", "write", "commit", "raise"} =>
        /\ rows_migrated = SumSeq(commits)
        /\ pos = rows_migrated + Len(batch)
        /\ Len(batch) <= BatchSize
        /\ batch = [i \in 1..Len(batch) |->
                      Values(SourceRows(Table)[rows_migrated + i], common_columns)]
        /\ tgt[Table] = Written(Table, insert_query, tgt0[Table], rows_migrated)
        /\ txn # <<>> =>
              \E j \in 0..Len(batch) :
                  txn[1] = Written(Table, insert_query, tgt0[Table], rows_migrated + j)
        /\ pc = "fetch" => txn = <<>>

\* C4 witness: the second batch is written and not yet committed
C4_Witness ==
    /\ pc = "commit"
    /\ Len(commits) = 1
    /\ txn # <<>>
    /\ txn[1] # tgt[Table]

\* ---------------------------------------------------------------- C5
\* The faults of a transfer: a batch write or the source stream failed
TransferFaults == {"read", "write", "commit", "statement"}

\* The for loop over the tables was entered (the operator confirmed the run)
LoopEntered == idx >= 1

AllProcessed == LoopEntered /\ idx > Len(tables_to_migrate)

\* C6: a report is written at most once per run and only after all
\* enumerated tables were processed, holding their results; and once all
\* of them are processed the report is written whatever the results are:
\* the step that writes it is enabled, or it has been written.
C6_ReportAlwaysFinalized ==
    /\ Len(report) <= 1
    /\ report # <<>> =>
          /\ AllProcessed
          /\ pc = "closed"
          /\ report[1].results = results
          /\ Len(results) = Len(tables_to_migrate)
    /\ AllProcessed =>
          \/ pc = "report" /\ ENABLED SaveReport /\ report = <<>>
          \/ pc = "closed" /\ Len(report) = 1

\* C6 witness: a report of a run in which no table was migrated
C6_Witness ==
    /\ Len(report) = 1
    /\ Len(report[1].results) = 2
    /\ report[1].results[1].status = "skipped"
    /\ report[1].results[2].status = "error"

\* ---------------------------------------------------------------- C7
\* C7: while a table is transferred, and while its exception is handled,
\* no step changes the committed rows of another table; the rollback
\* changes no committed row at all, the failed table's earlier batches
\* included.
C7_OtherTablesUntouched ==
    [][/\ InTransfer => \A t \in Tables : t # Table => tgt'[t] = tgt[t]
       /\ pc = "raise" => tgt' = tgt]_vars

\* C7 witness: the second table failed after one committed batch, the
\* first table's migrated rows are in the target
C7_Witness ==
    /\ Len(results) = 2
    /\ results[1].status = "success"
    /\ tgt[results[1].table] # tgt0[results[1].table]
    /\ results[2].status = "error"
    /\ results[2].rows_migrated > 0

\* ---------------------------------------------------------------- C8 and C9: two runs
\* The table of the two-run specification
T1 == TABLES_TO_MIGRATE[1]

\* The reconciled columns of T1
Common1 == CommonColumns(T1, schema[T1].src, schema[T1].tgt)

\* The target of T1 has a primary key of one column, and it is reconciled
UsableKey == Len(schema[T1].pk) = 1 /\ schema[T1].pk[1] \in Range(Common1)

\* The target of T1 has no primary key, or its key column is not reconciled
NoUsableKey ==
    \/ schema[T1].pk = <<>>
    \/ Len(schema[T1].pk) = 1 /\ schema[T1].pk[1] \notin Range(Common1)

\* A constraint of the target of T1 covers the written rows
UniqueCovers == \E key \in UniqueKeys(schema[T1]) : key \subseteq Range(Common1)

\* The second run of main() has ended
SecondRunEnded == Len(history) = 1 /\ pc \in {"closed", "exit"}

\* The operator was asked about T1 in the second run and affirmed
AffirmedSecond ==
    /\ Len(prompts) = 1
    /\ prompts[1].table = T1
    /\ prompts[1].response \in {"s", "S"}

\* No call raised in either run (no failing write among them)
NoFailure == history[1].faults \cup faults = {}

\* The first run reached the table: it has a result for it
FirstRunReported == Len(history[1].results) = 1

\* Rows of T1 in the target after the first run, and now
CountAfterFirst == Len(history[1].tgt[T1])
CountNow == Len(tgt[T1])

SameCountAndSuccess ==
    /\ CountNow = CountAfterFirst
    /\ Len(results) = 1
    /\ results[1].status = "success"

\* C8 as stated, read in its favour (no call fails at all, and the first
\* run got as far as the table): usable key, unchanged source, the operator
\* affirming in the second run: after the second run the target has as many
\* rows as after the first, and the second run reports 'success'.
C8_AsStated ==
    (SecondRunEnded /\ UsableKey /\ NoFailure /\ FirstRunReported /\ AffirmedSecond)
        => SameCountAndSuccess

\* C8, amended: the same, for a first run that migrated the table (its
\* result is 'success') and a second run in which no call raises.
C8_Idempotent ==
    (/\ SecondRunEnded /\ UsableKey /\ AffirmedSecond
     /\ FirstRunReported
     /\ history[1].results[1].status = "success"
     /\ faults = {})
        => SameCountAndSuccess

\* C8 witness: both runs migrated a table of several batches into a target
\* that had a row of its own and a row the source has too
C8_Witness ==
    /\ SecondRunEnded /\ UsableKey /\ AffirmedSecond
    /\ Len(history[1].results) = 1
    /\ history[1].results[1].status = "success"
    /\ history[1].tgt0[T1] # <<>>
    /\ srcN[T1] > BatchSize
    /\ SameCountAndSuccess

C10_ConflictStrategy ==
    InTransfer =>
        /\ common_columns = CommonColumns(Table, schema[Table].src, schema[Table].tgt)
        /\ insert_query.columns = common_columns
        /\ (pk_column = None) = (schema[Table].pk = <<>>)
        /\ pk_column # None => pk_column \in Range(schema[Table].pk)
        /\ insert_query.kind \in {"DO UPDATE", "DO NOTHING"}
        /\ (insert_query.kind = "DO UPDATE") =
              (pk_column # None /\ \E i \in DOMAIN common_columns : common_columns[i] = pk_column)
        /\ insert_query.kind = "DO UPDATE" =>
              /\ insert_query.conflict = pk_column
              /\ Len(insert_query.update) = Len(common_columns) - 1
              /\ \A i \in DOMAIN insert_query.update :
                    /\ insert_query.update[i] # pk_column
                    /\ insert_query.update[i] \in Range(common_columns)
              /\ \A c \in Range(common_columns) :
                    c # pk_column => c \in Range(insert_query.update)

\* C10 witness: the target has a key column that is not reconciled, and
\* the insert that does nothing on a conflict is being written
C10_Witness ==
    /\ pc = "commit"
    /\ pk_column # None
    /\ pk_column \notin Range(common_columns)
    /\ insert_query.kind = "DO NOTHING"

\* ---------------------------------------------------------------- C11
\* C11: the key lookup yields a column only when the target's primary key
\* has exactly one column; for a key of two or more columns it yields none,
\* and the table is written with the insert that does nothing on a
\* conflict, never with the overwrite on the key.
C11_CompositeKeyIsNone ==
    InTransfer =>
        /\ pk_column # None => schema[Table].pk = <<pk_column>>
        /\ Len(schema[Table].pk) >= 2 =>
              pk_column = None /\ insert_query.kind = "DO NOTHING"

\* ---------------------------------------------------------------- C12
\* The answers that line 183 lets through
Affirmative == {"s", "S"}

\* The operator was asked about table t and gave an affirmative answer
Affirmed(t) ==
    \E i \in DOMAIN prompts : prompts[i].table = t /\ prompts[i].response \in Affirmative

\* C12: a table whose target held rows is in its write stage (from before
\* its first write on), or has content other than at the start, only when
\* the operator answered its question affirmatively; every other answer
\* leaves the table with the result 'skipped' (user declined), zero rows
\* and its content untouched, and the table is never in a write stage.
C12_WriteNeedsAffirmation ==
    /\ \A t \in Tables :
          (tgt0[t] # <<>> /\ (tgt[t] # tgt0[t] \/ (InTransfer /\ Table = t))) => Affirmed(t)
    /\ txn # <<>> => InTransfer
    /\ \A i \in DOMAIN prompts :
          LET t == prompts[i].table
          IN /\ tgt0[t] # <<>>
             /\ \A j \in DOMAIN prompts : prompts[j].table = t => j = i
             /\ prompts[i].response \notin Affirmative =>
                   /\ tgt[t] = tgt0[t]
                   /\ ~(InTransfer /\ Table = t)
                   /\ \E k \in DOMAIN results :
                         results[k] = [table |-> t, status |-> "skipped",
                                       reason |-> "Usuario cancelo", rows_migrated |-> 0]

\* C12 witness: one table was declined with "si" and is untouched, the other
\* was affirmed with "S" and its filled target has been written
C12_Witness ==
    \E i, j \in DOMAIN prompts :
        /\ prompts[i].response = "si"
        /\ tgt[prompts[i].table] = tgt0[prompts[i].table]
        /\ prompts[j].response = "S"
        /\ tgt0[prompts[j].table] # <<>>
        /\ tgt[prompts[j].table] # tgt0[prompts[j].table]

\* ---------------------------------------------------------------- C13
\* The operator was asked about table t
Asked(t) == \E i \in DOMAIN prompts : prompts[i].table = t

\* Table t is where the run started it: never in a write stage, content as
\* at the start
Unwritten(t) == tgt[t] = tgt0[t] /\ ~(InTransfer /\ Table = t)

\* C13 as stated: a table whose source holds no row has the result
\* 'skipped' with the source-empty reason, is never asked about and is
\* never written.
C13_AsStated ==
    \A i \in DOMAIN results :
        LET t == results[i].table
        IN srcN[t] = 0 =>
              /\ results[i] = [table |-> t, status |-> "skipped",
                               reason |-> "Tabla vacia en origen", rows_migrated |-> 0]
              /\ ~Asked(t)
              /\ Unwritten(t)

\* C13: a table whose source holds no row is never asked about and never
\* written, and its result is 'skipped' with zero rows: with the
\* source-empty reason when it has reconciled columns, with the reason of
\* the earlier test (no common columns) when it has none.
C13_SourceEmpty ==
    \A t \in srcTables \cap tgtTables :
        srcN[t] = 0 =>
            /\ ~Asked(t)
            /\ Unwritten(t)
            /\ \A i \in DOMAIN results :
                  results[i].table = t =>
                      results[i] =
                          [table |-> t, status |-> "skipped", rows_migrated |-> 0,
                           reason |-> IF CommonColumns(t, schema[t].src, schema[t].tgt) = <<>>
                                      THEN "No hay columnas comunes"
                                      ELSE "Tabla vacia en origen"]

\* C13 witness: the run ended with a table skipped for its empty source
\* while its target holds rows
C13_Witness ==
    /\ pc = "closed"
    /\ \E i \in DOMAIN results :
          /\ srcN[results[i].table] = 0
          /\ results[i].reason = "Tabla vacia en origen"
          /\ tgt0[results[i].table] # <<>>

\* ---------------------------------------------------------------- C14
\* C14: a table without a reconciled column is never in a write stage, its
\* target content stays as it was, and the only result it gets is 'skipped'
\* with the no-common-columns reason and zero rows: not 'success', not
\* 'error'.
C14_NoCommonColumns ==
    \A t \in srcTables \cap tgtTables :
        CommonColumns(t, schema[t].src, schema[t].tgt) = <<>> =>
            /\ Unwritten(t)
            /\ txn # <<>> => Table # t
            /\ \A i \in DOMAIN results :
                  results[i].table = t =>
                      results[i] = [table |-> t, status |-> "skipped",
                                    reason |-> "No hay columnas comunes",
                                    rows_migrated |-> 0]

\* C14 witness: the run ended with a table skipped for want of common
\* columns although its source holds rows
C14_Witness ==
    /\ pc = "closed"
    /\ \E i \in DOMAIN results :
          /\ results[i].status = "skipped"
          /\ results[i].reason = "No hay columnas comunes"
          /\ srcN[results[i].table] > BatchSize
          /\ schema[results[i].table].src # <<>>
          /\ schema[results[i].table].tgt # <<>>

\* ---------------------------------------------------------------- C15
\* C15: whatever the mapping and the two column lists, the reconciled list
\* is a list of names of both the source and the target list, holds no
\* name of the exclude set and none outside a given include set, and keeps
\* the relative order of the source list; an excluded name that the target
\* lacks does not make the computation fail.
C15_Reconciled ==
    reconcile.returned =>
        LET out == reconcile.common_columns
            m == reconcile.mapping
            src == reconcile.source_columns
        IN /\ out \in Seq(Cols)
           /\ \A i \in DOMAIN out :
                 /\ out[i] \in Range(src)
                 /\ out[i] \in Range(reconcile.target_columns)
                 /\ "exclude" \in DOMAIN m => out[i] \notin m["exclude"]
                 /\ "include" \in DOMAIN m => out[i] \in m["include"]
           /\ \A i, j \in DOMAIN out :
                 i < j => \E a, b \in DOMAIN src :
                             a < b /\ src[a] = out[i] /\ src[b] = out[j]

\* C15 witness: the mapping of pool_statistics, on a source whose order
\* differs from the target's and whose excluded column the target lacks
C15_Witness ==
    /\ reconcile.returned
    /\ reconcile.mapping = COLUMN_MAPPING["pool_statistics"]
    /\ reconcile.source_columns = <<"tvl_usd", "avg_profit_usd", "pool_address">>
    /\ reconcile.target_columns = <<"pool_address", "tvl_usd">>
    /\ reconcile.common_columns = <<"tvl_usd", "pool_address">>

\* ---------------------------------------------------------------- C16
\* The algorithm as specified: restrict to the include list, then remove
\* the exclude list, then keep what the target has, in source order
SpecifiedReconcile(mapping, source_columns, target_columns) ==
    LET included == IF "include" \in DOMAIN mapping
                    THEN SelectSeq(source_columns, LAMBDA c : c \in mapping["include"])
                    ELSE source_columns
        excluded == IF "exclude" \in DOMAIN mapping
                    THEN SelectSeq(included, LAMBDA c : c \notin mapping["exclude"])
                    ELSE included
    IN SelectSeq(excluded, LAMBDA c : c \in Range(target_columns))

\* C16: the list lines 140-149 return (exclude, include, intersect) is the
\* list of the specified algorithm (include, exclude, intersect), for
\* every mapping and every pair of column lists.
C16_SameAsSpecified ==
    reconcile.returned =>
        reconcile.common_columns =
            SpecifiedReconcile(reconcile.mapping, reconcile.source_columns,
                               reconcile.target_columns)

\* C16 witness: a mapping with both lists, a column in both of them that
\* source and target have, and a non-empty outcome
C16_Witness ==
    /\ reconcile.returned
    /\ DOMAIN reconcile.mapping = {"exclude", "include"}
    /\ \E c \in reconcile.mapping["exclude"] \cap reconcile.mapping["include"] :
          /\ c \in Range(reconcile.source_columns)
          /\ c \in Range(reconcile.target_columns)
    /\ Len(reconcile.common_columns) = 2
    /\ Len(reconcile.source_columns) = 3

\* ---------------------------------------------------------------- C17
\* C17: with a mapping that has an exclude list only, and that list empty,
\* the reconciled list is the one computed without any mapping.
C17_EmptyExclude ==
    (reconcile.returned /\ DOMAIN reconcile.mapping = {"exclude"}
        /\ reconcile.mapping["exclude"] = {}) =>
        reconcile.common_columns =
            ReconcileColumns(NoMapping, reconcile.source_columns, reconcile.target_columns)

\* C17 witness: an empty exclude list, and a source with a column the
\* target lacks
C17_Witness ==
    /\ reconcile.returned
    /\ DOMAIN reconcile.mapping = {"exclude"}
    /\ reconcile.mapping["exclude"] = {}
    /\ Len(reconcile.source_columns) = 3
    /\ Len(reconcile.common_columns) = 2

\* ---------------------------------------------------------------- C18
\* The configured tables that exist in both schemas
InBoth == Tables \cap srcTables \cap tgtTables

\* The tables that have a result
Reported(rs) == {rs[i].table : i \in DOMAIN rs}

\* migrate_table is running
InMigrateTable == pc = "table" \/ InTransfer

\* C18: once the tables are enumerated, the tables of the run are exactly
\* the configured tables present on both sides, and a run that reaches
\* its report has a result for exactly those; a configured table missing
\* on either side is never the argument of migrate_table, is never asked
\* about, never written, and has no result, in the run or in the report.
C18_OnlyCommonTables ==
    /\ pc \notin {"start", "exit"} => Range(tables_to_migrate) = InBoth
    /\ Reported(results) \subseteq InBoth
    /\ (pc = "report" \/ report # <<>>) => Reported(results) = InBoth
    /\ \A t \in Tables \ InBoth :
          /\ InMigrateTable => Table # t
          /\ tgt[t] = tgt0[t]
          /\ ~Asked(t)
          /\ \A f \in faults : f.table # t
          /\ \A i \in DOMAIN report : t \notin Reported(report[i].results)

\* C18 witness: the report is written; one configured table exists in the
\* source only and is not in it, the other was copied
C18_Witness ==
    /\ report # <<>>
    /\ \E t \in Tables : t \in srcTables /\ t \notin tgtTables
    /\ Len(report[1].results) = 1
    /\ report[1].results[1].status = "success"

\* ---------------------------------------------------------------- C19
\* Position of table t in the configured list
Configured(t) == CHOOSE i \in DOMAIN TABLES_TO_MIGRATE : TABLES_TO_MIGRATE[i] = t

\* C19: the enumerated tables are in configured order; the results are,
\* one each, those of the tables before the current one, in that order;
\* while a table is processed every later table is as the run found it
\* (not asked about, not written, no call of it failed), and a pending
\* write belongs to the current table; a run that reaches the report has
\* exactly one result per enumerated table, and the report holds them.
C19_OneAtATime ==
    /\ \A i, j \in DOMAIN tables_to_migrate :
          i < j => Configured(tables_to_migrate[i]) < Configured(tables_to_migrate[j])
    /\ Len(results) <= Len(tables_to_migrate)
    /\ \A i \in DOMAIN results : results[i].table = tables_to_migrate[i]
    /\ InMigrateTable =>
          /\ idx = Len(results) + 1
          /\ \A i \in DOMAIN prompts :
                \E j \in 1..idx : prompts[i].table = tables_to_migrate[j]
    /\ \A j \in DOMAIN tables_to_migrate :
          j > Len(results) + 1 =>
              /\ tgt[tables_to_migrate[j]] = tgt0[tables_to_migrate[j]]
              /\ ~Asked(tables_to_migrate[j])
              /\ \A f \in faults : f.table # tables_to_migrate[j]
    /\ txn # <<>> => InTransfer /\ idx = Len(results) + 1
    /\ (pc = "report" \/ report # <<>>) => Len(results) = Len(tables_to_migrate)
    /\ report # <<>> => Last(report).results = results

\* C19 witness: the report of a run over both configured tables, the first
\* one copied, the second one overwritten after the question
C19_Witness ==
    /\ report # <<>>
    /\ Len(results) = 2
    /\ results[1].status = "success" /\ results[1].rows_migrated > BatchSize
    /\ results[2].status = "success"
    /\ Asked(results[2].table)

\* ---------------------------------------------------------------- C20
\* verify_connections found an endpoint unreachable
Unreachable == \E f \in faults : f.kind = "connect"

\* C20: when the source or the target endpoint is unreachable at startup
\* the run has ended: no connection is held, no table is enumerated, no
\* table is processed or asked about, the target is as it was, and there
\* is no report.
C20_AbortAtStartup ==
    Unreachable =>
        /\ pc = "exit"
        /\ ~srcOpen /\ ~tgtOpen
        /\ tables_to_migrate = <<>>
        /\ idx = 0 /\ results = <<>>
        /\ prompts = <<>>
        /\ tgt = tgt0 /\ txn = <<>>
        /\ report = <<>>
        /\ ~ENABLED Next

\* C20 witness: the target endpoint is unreachable while a table present
\* on both sides has rows to copy
C20_Witness ==
    /\ pc = "exit"
    /\ [table |-> "target", kind |-> "connect"] \in faults
    /\ \E t \in InBoth : srcN[t] > 0 /\ tgt0[t] # <<>>

\* ---------------------------------------------------------------- C21
\* rows_migrated added up over all results
RECURSIVE SumRows(_)
SumRows(rs) == IF rs = <<>> THEN 0 ELSE Head(rs).rows_migrated + SumRows(Tail(rs))

\* C21: the total of a persisted report is the sum of rows_migrated over
\* all of its results, the rows that 'error' results count as committed
\* before the failure included.
C21_TotalOverAllResults ==
    \A i \in DOMAIN report :
        report[i].total_rows_migrated = SumRows(report[i].results)

\* ---------------------------------------------------------------- C22
\* C22: once a catalog or count query of a table has raised, the exception
\* has left migrate_table and main: the run is over with its connections
\* closed, the table has no result and is unwritten, the results are those
\* of the tables before it, every later table is as the run found it, and
\* no report is written.
C22_IntrospectionIsFatal ==
    \A f \in faults :
        f.kind = "introspection" =>
            /\ escaped
            /\ pc = "closed"
            /\ ~srcOpen /\ ~tgtOpen
            /\ ~ENABLED Next
            /\ f.table = tables_to_migrate[idx]
            /\ f.table \notin Reported(results)
            /\ Len(results) = idx - 1
            /\ tgt[f.table] = tgt0[f.table]
            /\ txn = <<>>
            /\ \A j \in DOMAIN tables_to_migrate :
                  j > idx => /\ tgt[tables_to_migrate[j]] = tgt0[tables_to_migrate[j]]
                             /\ ~Asked(tables_to_migrate[j])
            /\ report = <<>>

\* C22 witness: the first table was copied, a query of the second raised
\* although it has rows to copy
C22_Witness ==
    /\ escaped
    /\ idx = 2
    /\ results[1].status = "success"
    /\ srcN[tables_to_migrate[2]] > 0
    /\ CommonColumns(tables_to_migrate[2], schema[tables_to_migrate[2]].src,
                     schema[tables_to_migrate[2]].tgt) # <<>>

\* ---------------------------------------------------------------- C23
\* The reasons and the error messages of the results
Reasons == {"No hay columnas comunes", "Tabla vacia en origen", "Usuario cancelo"}
Messages == {"read", "write", "commit", "statement"}

\* C23: every result has one status out of success, skipped and error and
\* the fields of that status only: a skipped one a reason and zero rows,
\* an error one a message and the rows committed before the failure, a
\* success one the rows of the source and the number of reconciled columns.
C23_ResultShape ==
    \A i \in DOMAIN results :
        LET r == results[i]
            t == r.table
        IN /\ r.status \in {"success", "skipped", "error"}
           /\ r.status = "skipped" =>
                 /\ DOMAIN r = {"table", "status", "reason", "rows_migrated"}
                 /\ r.reason \in Reasons
                 /\ r.rows_migrated = 0
           /\ r.status = "error" =>
                 /\ DOMAIN r = {"table", "status", "error", "rows_migrated"}
                 /\ r.error \in Messages
                 /\ r.rows_migrated \in 0..srcN[t]
                 /\ r.rows_migrated % BatchSize = 0
           /\ r.status = "success" =>
                 /\ DOMAIN r = {"table", "status", "rows_migrated", "columns_migrated"}
                 /\ r.rows_migrated = srcN[t]
                 /\ r.columns_migrated =
                       Len(CommonColumns(t, schema[t].src, schema[t].tgt))
                 /\ r.columns_migrated > 0

\* C23 witness: a run with an error result that counts a committed batch
\* and a skipped result
C23_Witness ==
    /\ Len(results) = 2
    /\ results[1].status = "error" /\ results[1].rows_migrated = BatchSize
    /\ results[2].status = "skipped"

\* ---------------------------------------------------------------- C24
\* C24: a statement that overwrites on the key has at least one column in
\* its SET list, and a table whose only reconciled column is its key gets
\* the result 'success' when no call of its transfer failed.
C24_UpdateListNotEmpty ==
    /\ (InTransfer /\ insert_query.kind = "DO UPDATE") => insert_query.update # <<>>
    /\ \A i \in DOMAIN results :
          LET t == results[i].table
          IN (/\ schema[t].pk # <<>>
              /\ CommonColumns(t, schema[t].src, schema[t].tgt) = schema[t].pk
              /\ srcN[t] > 0
              /\ tgt0[t] = <<>>
              /\ \A f \in faults : f.table # t)
             => results[i].status = "success"

\* ---------------------------------------------------------------- C25
\* main returned before its loop: migrate_table was never called, nothing
\* is written or asked, there is no report, the connections are closed
EndedBeforeLoop ==
    /\ pc = "closed"
    /\ idx = 0 /\ results = <<>>
    /\ prompts = <<>> /\ faults = {} /\ ~escaped
    /\ tgt = tgt0 /\ txn = <<>>
    /\ report = <<>>
    /\ ~srcOpen /\ ~tgtOpen
    /\ ~ENABLED Next

\* C25: when no configured table exists on both sides the run, once past
\* the connection test, has ended before its loop; a run that is over
\* without having entered the loop (no common table, or the run-level
\* question declined) has ended that way too; and while the run-level
\* question is open nothing has been processed.
C25_EndsBeforeLoop ==
    /\ (pc \notin {"start", "exit"} /\ InBoth = {}) => EndedBeforeLoop
    /\ (pc = "closed" /\ idx = 0) => EndedBeforeLoop
    /\ pc = "confirm" =>
          /\ InBoth # {}
          /\ idx = 0 /\ results = <<>> /\ prompts = <<>>
          /\ tgt = tgt0 /\ txn = <<>> /\ report = <<>>

\* C25 witness: the run-level question was declined although a table on
\* both sides has rows to copy
C25_Witness ==
    /\ pc = "closed" /\ idx = 0
    /\ \E t \in InBoth :
          /\ srcN[t] > 0
          /\ CommonColumns(t, schema[t].src, schema[t].tgt) # <<>>

\* ---------------------------------------------------------------- C26
\* The contents table t has: the committed one and, for the table being
\* written, the pending one
Contents(t) ==
    {tgt[t]} \cup (IF txn # <<>> /\ InTransfer /\ Table = t THEN {txn[1]} ELSE {})

\* The values the source rows of t have in column c
SourceValues(t, c) == {SourceRows(t)[k][c] : k \in 1..srcN[t]}

\* C26: every content of a target table, committed or pending, has at
\* least the rows it started with, each at its place; a row that differs
\* from what it was belongs to a table written by the overwrite on a key
\* column, has kept that key, shares it with a source row, and differs in
\* reconciled columns other than the key only.
C26_FrameOfTransfer ==
    \A t \in Tables : \A T \in Contents(t) :
        /\ Len(T) >= Len(tgt0[t])
        /\ Len(tgt[t]) >= Len(tgt0[t])
        /\ \A i \in DOMAIN tgt0[t] :
              LET old == tgt0[t][i]
                  common == CommonColumns(t, schema[t].src, schema[t].tgt)
              IN /\ \A c \in Cols \ Range(common) : T[i][c] = old[c]
                 /\ T[i] # old =>
                       \E pkc \in Range(schema[t].pk) \cap Range(common) :
                           /\ T[i][pkc] = old[pkc]
                           /\ old[pkc] \in SourceValues(t, pkc)
                           /\ \A c \in Cols : T[i][c] # old[c] => c # pkc

\* C26 witness: pool_statistics was overwritten on its key: the row with
\* the source's key has new data but its old excluded column, the row with
\* the other key is as it was, and rows were added
C26_Witness ==
    /\ pc = "closed"
    /\ Len(tgt0["pool_statistics"]) = 2
    /\ Len(tgt["pool_statistics"]) > 2
    /\ tgt["pool_statistics"][1].tvl_usd # tgt0["pool_statistics"][1].tvl_usd
    /\ tgt["pool_statistics"][1].avg_profit_usd = 7
    /\ tgt["pool_statistics"][2] = tgt0["pool_statistics"][2]

\* ---------------------------------------------------------------- C27
\* Rows the target table t has gained since the run started
Growth(t) == Len(tgt[t]) - Len(tgt0[t])

\* C27: during a transfer rows_migrated is the number of rows sent in the
\* batches committed so far; a 'success' result counts every row of the
\* source, an 'error' result the rows of the committed batches, whatever
\* the statement did with them: the table has gained at most that many
\* rows.
C27_CountsRowsSent ==
    /\ InTransfer =>
          /\ rows_migrated = SumSeq(commits)
          /\ Growth(Table) <= rows_migrated
    /\ \A i \in DOMAIN results :
          /\ results[i].status = "success" => results[i].rows_migrated = srcN[results[i].table]
          /\ Growth(results[i].table) <= results[i].rows_migrated

\* C27 witness: a table without primary key but with a unique column was
\* copied with 'success'; a source row was ignored on conflict, so the
\* count exceeds the growth of the table
C27_Witness ==
    \E i \in DOMAIN results :
        LET t == results[i].table
        IN /\ results[i].status = "success"
           /\ schema[t].pk = <<>> /\ schema[t].uniq # {}
           /\ results[i].rows_migrated = 2 * BatchSize + 1
           /\ Growth(t) = results[i].rows_migrated - 1

\* ---------------------------------------------------------------- C28
\* C28: whenever main is about to call migrate_table, and whenever it is
\* outside of a table's transfer, the target connection has no pending
\* write; and every step that records a table's result, whichever its
\* status, leaves none behind.
C28_NoPendingWriteBetweenTables ==
    /\ [](~InTransfer => txn = <<>>)
    /\ [][results' # results => txn' = <<>>]_vars

\* C28 witness: main is about to start the second table after the first
\* one failed with a half-written batch on top of a committed one
C28_Witness ==
    /\ pc = "table" /\ idx = 2
    /\ results[1].status = "error" /\ results[1].error = "write"
    /\ results[1].rows_migrated = BatchSize
    /\ txn = <<>>

\* ---------------------------------------------------------------- C29
\* The positions of main between get_connection and the finally block
Running == pc \in {"confirm", "table", "report"} \/ InTransfer

\* C29: the two connections are open exactly while main is between opening
\* them and its finally block; a state from which the run takes no step is
\* the end of main or the exit at startup; at the end of main, however it
\* was reached, both connections are closed and nothing more happens, so no
\* table is processed on closed connections.
C29_ConnectionsClosedAtEnd ==
    /\ srcOpen = Running /\ tgtOpen = Running
    /\ ~ENABLED Next => pc \in {"closed", "exit"}
    /\ pc = "closed" => ~srcOpen /\ ~tgtOpen /\ ~ENABLED Next
    /\ (report # <<>> \/ escaped) => pc = "closed"
    /\ InMigrateTable => srcOpen /\ tgtOpen

\* C29 witness: an exception left migrate_table at the second table, after
\* the first was written; both connections are closed
C29_Witness ==
    /\ escaped
    /\ ~srcOpen /\ ~tgtOpen
    /\ Len(results) = 1
    /\ tgt # tgt0
====
